---- MODULE Spec2Model ----
(***************************************************************************)
(* csv-wrangler: the streaming pipeline of src/lib/wrangler.ts             *)
(* (wrangle, buildTransformer, _wrangle, wrangleFileAsync) and the         *)
(* formula DSL of src/lib/api.ts (Dsl.value, titleCase, integer, float).   *)
(*                                                                         *)
(* JavaScript values are tagged records: a text is a tuple of one-char     *)
(* strings, a number is a mantissa m and a count e of decimal places       *)
(* (m / 10^e, normalised), undefined is its own tag.                       *)
(***************************************************************************)
EXTENDS Integers, Sequences, FiniteSets, TLC

(* ------------------------------ bounds -------------------------------- *)

\* Lines the source holds at most.
MaxLines == 5
\* Lines one chunk of the byte source holds at most.
MaxChunk == 2
\* highWaterMark of every object-mode buffer of the piped streams.
HWM == 1
\* Mappings a mapping set holds at most (transformer specification).
MaxMappings == 2
\* Characters of a field text the functions of the Dsl are called with.
MaxText == 3

(* --------------------------- JavaScript values ------------------------ *)

Undef == [t |-> "undefined"]

Str(s) == [t |-> "string", s |-> s]

Null == [t |-> "null"]

NaN == [t |-> "NaN"]

RECURSIVE Normalise(_, _)
\* A decimal without trailing zeros in its fraction: 1000.0 is 1000.
Normalise(m, e) ==
  IF e > 0 /\ m % 10 = 0 THEN Normalise(m \div 10, e - 1)
  ELSE [t |-> "number", m |-> m, e |-> e]

Num(m, e) == Normalise(m, e)

RECURSIVE Pow10(_)
Pow10(e) == IF e = 0 THEN 1 ELSE 10 * Pow10(e - 1)

\* An Error object: `throw Error(msg)`, or a TypeError / ReferenceError /
\* SyntaxError of the runtime.  Error objects are extensible.
ErrorObj(msg) == [t |-> "Error", message |-> msg]

\* Every thrown value taken for a primitive.
NoObject(v) == FALSE

IsObject(v) == v.t = "Error"

Digits == <<"0", "1", "2", "3", "4", "5", "6", "7", "8", "9">>

IsDigit(c) == \E d \in 1..10 : Digits[d] = c

DigitVal(c) == (CHOOSE d \in 1..10 : Digits[d] = c) - 1

RECURSIVE DigitsVal(_)
DigitsVal(s) ==
  IF s = <<>> THEN 0
  ELSE 10 * DigitsVal(SubSeq(s, 1, Len(s) - 1)) + DigitVal(s[Len(s)])

AllDigits(s) == \A i \in 1..Len(s) : IsDigit(s[i])

RECURSIVE TrimLeft(_)
TrimLeft(s) == IF s # <<>> /\ s[1] = " " THEN TrimLeft(Tail(s)) ELSE s

RECURSIVE TrimRight(_)
TrimRight(s) ==
  IF s # <<>> /\ s[Len(s)] = " " THEN TrimRight(SubSeq(s, 1, Len(s) - 1)) ELSE s

\* A decimal literal without sign: digits with at most one point and at
\* least one digit; ip and fp are the texts before and after the point.
Decimal(ip, fp) ==
  IF ~AllDigits(ip) \/ ~AllDigits(fp) \/ Len(ip) + Len(fp) = 0 THEN NaN
  ELSE Num(DigitsVal(ip) * Pow10(Len(fp)) + DigitsVal(fp), Len(fp))

SplitAtPoint(body, dots) ==
  IF dots = {} THEN Decimal(body, <<>>)
  ELSE IF Cardinality(dots) > 1 THEN NaN
  ELSE Decimal(SubSeq(body, 1, (CHOOSE i \in dots : TRUE) - 1),
               SubSeq(body, (CHOOSE i \in dots : TRUE) + 1, Len(body)))

Unsigned(body) == SplitAtPoint(body, {i \in 1..Len(body) : body[i] = "."})

Negated(n) == IF n.t = "NaN" THEN NaN ELSE Num(0 - n.m, n.e)

\* A conversion that takes the empty text for no number.
SignedStrict(u) ==
  IF u = <<>> THEN NaN
  ELSE IF u[1] = "-" THEN Negated(Unsigned(Tail(u)))
  ELSE IF u[1] = "+" THEN Unsigned(Tail(u))
  ELSE Unsigned(u)

Signed(u) ==
  IF u = <<>> THEN Num(0, 0)
  ELSE IF u[1] = "-" THEN Negated(Unsigned(Tail(u)))
  ELSE IF u[1] = "+" THEN Unsigned(Tail(u))
  ELSE Unsigned(u)

\* Number(text): white space is trimmed, the empty text is 0, then an
\* optional sign and a decimal literal; any other text is NaN.
ToNumber(s) == Signed(TrimRight(TrimLeft(s)))

\* text.replace(',', ''): the first comma goes.
StripFirstComma(s) ==
  IF \E i \in 1..Len(s) : s[i] = ","
    THEN SubSeq(s, 1, (CHOOSE i \in 1..Len(s) :
                         s[i] = "," /\ \A j \in 1..(i - 1) : s[j] # ",") - 1)
         \o SubSeq(s, (CHOOSE i \in 1..Len(s) :
                         s[i] = "," /\ \A j \in 1..(i - 1) : s[j] # ",") + 1, Len(s))
  ELSE s

\* text.replace(/,/g, ''): every comma goes.
StripCommas(s) == SelectSeq(s, LAMBDA c : c # ",")

\* Rounding toward zero.
Truncate(n) ==
  IF n.m < 0 THEN Num(0 - ((0 - n.m) \div Pow10(n.e)), 0)
  ELSE Num(n.m \div Pow10(n.e), 0)

\* Math.floor: toward negative infinity.
Floor(n) == Num(n.m \div Pow10(n.e), 0)

Lower(c) == CASE c = "A" -> "a" [] c = "B" -> "b" [] c = "K" -> "k"
              [] c = "G" -> "g" [] c = "I" -> "i" [] c = "L" -> "l"
              [] OTHER -> c

Upper(c) == CASE c = "a" -> "A" [] c = "b" -> "B" [] c = "k" -> "K"
              [] c = "g" -> "G" [] c = "i" -> "I" [] c = "l" -> "L"
              [] OTHER -> c

(* -------------------- results of evaluating JavaScript ---------------- *)

Ok(v) == [ok |-> TRUE, val |-> v]

Throw(v) == [ok |-> FALSE, thrown |-> v]

(* ------------------------------ api.Dsl ------------------------------- *)

\* Dsl.value: this.row[name]
DslValue(row, name) == Ok(row[name])

\* A float that returns whatever Number(...) gave.
PassNumber(name, val) == Ok(val)

\* Dsl.float, from `const val = Number(...)` on.
CheckNumber(name, val) ==
  IF val.t = "NaN" THEN Throw(ErrorObj(name \o " is not a number")) ELSE Ok(val)

\* A float that forces the field to a text first: Number(`${s}`...).
DslFloatForced(row, name) ==
  IF row[name].t = "string" THEN CheckNumber(name, ToNumber(StripCommas(row[name].s)))
  ELSE IF row[name].t = "number" THEN Ok(row[name])
  ELSE Throw(ErrorObj(name \o " is not a number"))

\* Dsl.float; s.replace of a value that is no text is a TypeError.
DslFloat(row, name) ==
  IF row[name].t = "undefined" THEN Throw(ErrorObj(name \o " is undefined"))
  ELSE IF row[name].t # "string" THEN Throw(ErrorObj("s.replace is not a function"))
  ELSE CheckNumber(name, ToNumber(StripCommas(row[name].s)))

FloorOf(f) == IF f.ok THEN Ok(Floor(f.val)) ELSE f

\* Dsl.integer: Math.floor(this.float(name))
DslInteger(row, name) == FloorOf(DslFloat(row, name))

RECURSIVE SplitSpaces(_)
\* text.split(' '): the words between single spaces, empty ones included.
SplitSpaces(s) ==
  LET sp == {i \in 1..Len(s) : s[i] = " "} IN
  IF sp = {} THEN <<s>>
  ELSE LET i == CHOOSE k \in sp : \A j \in sp : k <= j
       IN <<SubSeq(s, 1, i - 1)>> \o SplitSpaces(SubSeq(s, i + 1, Len(s)))

RECURSIVE JoinSpaces(_)
JoinSpaces(ws) ==
  IF Len(ws) = 1 THEN ws[1] ELSE ws[1] \o <<" ">> \o JoinSpaces(Tail(ws))

TitleWords(words) ==
  IF \E i \in 1..Len(words) : words[i] = <<>>
    THEN Throw(ErrorObj("Cannot read property toUpperCase of undefined"))
  ELSE Ok(Str(JoinSpaces(
         [i \in 1..Len(words) |-> <<Upper(words[i][1])>> \o Tail(words[i])])))

\* Dsl.titleCase: word[0] of an empty word is undefined, and
\* undefined.toUpperCase() is a TypeError; so is str.toLowerCase() of a
\* value that is no text.
DslTitleCase(str) ==
  IF str.t # "string" THEN Throw(ErrorObj("str.toLowerCase is not a function"))
  ELSE TitleWords(SplitSpaces([i \in 1..Len(str.s) |-> Lower(str.s[i])]))

(* ----------------------- formulas and mappings ----------------------- *)

\* The formulas of the model, each a JavaScript expression over the
\* bindings of the Dsl:
\*   lit       'kg'
\*   value     value('col')
\*   float     float('col')
\*   integer   integer('col')
\*   titleCase titleCase(value('col'))
\*   orThrow   value('col') || (() => { throw 'col missing' })()
\*   unparsable   float('col'          (no JavaScript expression)
\*   unknownName  amount * 2           (a name that is not bound)
Lit(v) == [op |-> "lit", v |-> v]

\* Function(...) throws a SyntaxError for it, each time it is built.
Unparsable == [op |-> "unparsable"]

\* Its evaluation throws a ReferenceError.
UnknownName == [op |-> "unknownName"]

OfCol(op, col) == [op |-> op, col |-> col]

\* Whether a value is falsy: undefined, the empty text, 0, NaN.
Falsy(v) ==
  \/ v.t \in {"undefined", "NaN"}
  \/ v.t = "string" /\ v.s = <<>>
  \/ v.t = "number" /\ v.m = 0

\* The thrown text of an orThrow formula: a primitive, not an object.
MissingText == Str(<<"m", "i", "s", "s", "i", "n", "g">>)

\* mapFn.call(context, ...Object.values(context)): the formula's value, or
\* what it throws.
Eval(formula, row) ==
  CASE formula.op = "lit" -> Ok(formula.v)
    [] formula.op = "value" -> DslValue(row, formula.col)
    [] formula.op = "float" -> DslFloat(row, formula.col)
    [] formula.op = "integer" -> DslInteger(row, formula.col)
    [] formula.op = "titleCase" -> DslTitleCase(DslValue(row, formula.col).val)
    [] formula.op = "orThrow" ->
         IF Falsy(row[formula.col]) THEN Throw(MissingText)
         ELSE Ok(row[formula.col])
    [] formula.op = "unparsable" -> Throw(ErrorObj("Unexpected token"))
    [] formula.op = "unknownName" -> Throw(ErrorObj("amount is not defined"))

\* const mutableTarget = {}
EmptyTarget == [n \in {} |-> Undef]

\* mutableTarget[name] = v on a plain object: an own entry is set or
\* overwritten, except under the name __proto__, whose assignment goes to
\* the setter of Object.prototype (a primitive v is ignored) and makes no
\* own entry.
Assign(target, name, v) ==
  IF name = "__proto__" THEN target
  ELSE [n \in DOMAIN target \cup {name} |-> IF n = name THEN v ELSE target[n]]

\* One iteration of config.mappings.forEach: the new target, or the throw
\* that leaves the loop.
AssignResult(target, name, r) ==
  IF r.ok THEN Ok(Assign(target, name, r.val)) ELSE r

ApplyMapping(target, mapping, row) ==
  AssignResult(target, mapping.name, Eval(mapping.formula, row))

RECURSIVE ForEach(_, _, _, _)
RECURSIVE Iterate(_, _, _, _)
\* config.mappings.forEach from mapping i on: the finished target, or the
\* first throw.
ForEach(mappings, i, target, row) ==
  IF i > Len(mappings) THEN Ok(target)
  ELSE Iterate(mappings, i, ApplyMapping(target, mappings[i], row), row)

\* After iteration i with result r: a throw leaves the loop.
Iterate(mappings, i, r, row) ==
  IF r.ok THEN ForEach(mappings, i + 1, r.val, row) ELSE r

\* The function buildTransformer returns, applied to a row.
Transformer(config, row) == ForEach(config, 1, EmptyTarget, row)

\* A catch block that emits what was thrown as it is.
TryCatchNoRow(r, row) ==
  IF r.ok THEN [kind |-> "push", rec |-> r.val]
  ELSE [kind |-> "skip", err |-> r.thrown]

\* try { return transformer(row) } catch (mutableErr) { ... } on the
\* transformer's result r.
TryCatch(r, row) ==
  IF r.ok THEN [kind |-> "push", rec |-> r.val]
  ELSE IF IsObject(r.thrown)
    THEN [kind |-> "skip",
          err |-> [t |-> "Error", message |-> r.thrown.message, row |-> row]]
  ELSE [kind |-> "error", err |-> ErrorObj("Cannot create property row")]

\* The callback of userTransform: the record to push, the skip event to
\* emit, or the TypeError that `mutableErr.row = row` raises inside the catch
\* block when the thrown value is no object (strict mode), which leaves the
\* callback.
UserTransform(config, row) == TryCatch(Transformer(config, row), row)

(* ------------------------------ inputs -------------------------------- *)

Text1000 == <<"1", "0", "0", "0">>
Text5250 == <<"5", ",", "2", "5", "0", ".", "5", "0">>
TextKg == <<"k", "g">>

Columns == {"Order", "Count", "Unit"}

\* The lines of a source: rows the parser delivers, and a line it cannot
\* tokenize.
GoodRow == [c \in Columns |->
  CASE c = "Order" -> Str(Text1000) [] c = "Count" -> Str(Text5250)
    [] OTHER -> Str(TextKg)]

\* Count is no number: float('Count') throws an Error.
BadNumRow == [GoodRow EXCEPT !["Count"] = Str(<<"a", "b">>)]

\* Unit is the empty cell: the orThrow formula throws a text.
NoUnitRow == [GoodRow EXCEPT !["Unit"] = Str(<<>>)]

LineKinds == {"good", "badnum", "nounit", "malformed"}

LineRow(kind) ==
  CASE kind = "good" -> GoodRow
    [] kind = "badnum" -> BadNumRow
    [] kind = "nounit" -> NoUnitRow

\* The mapping set of the pipeline.
PipelineConfig ==
  << [name |-> "OrderID", formula |-> OfCol("integer", "Order")],
     [name |-> "Quantity", formula |-> OfCol("float", "Count")],
     [name |-> "Unit", formula |-> OfCol("orThrow", "Unit")] >>

(* --------------------------- the pipeline ----------------------------- *)

VARIABLES
  api,        \* "stream": wrangle, read by the caller; "file": wrangleFileAsync
  srcStatus,  \* sourceCsv: "open", "ended" (read to its end) or "errored"
  parsed,     \* the lines the parser has been given so far, in file order
  pBuf,       \* parser: rows parsed and not yet piped on (line indices)
  pPiped,     \* parser is piped into userTransform
  tWBuf,      \* userTransform: rows written and not yet transformed
  tRBuf,      \* userTransform: records pushed and not yet read
  tEnd,       \* userTransform has been ended by the pipe
  tDestroyed, \* userTransform has been destroyed
  out,        \* the records outputStream has emitted ('data'), in order
  skips,      \* the 'skip' events outputStream has emitted, in order
  ends,       \* 'end' events of outputStream
  errors,     \* 'error' events of outputStream
  sink,       \* the consumer: "consuming", "stopped" or "failed"
  promise,    \* wrangleFileAsync: "pending", "resolved", "rejected"; else "none"
  stopAt,     \* lines parsed when the consumer stopped or failed; -1 before
  targetLines \* wrangleFileAsync: the lines written to the target file

pvars == <<api, srcStatus, parsed, pBuf, pPiped, tWBuf, tRBuf, tEnd, tDestroyed,
           out, skips, ends, errors, sink, promise, stopAt, targetLines>>

VARIABLES
  xfConfig,   \* buildTransformer: the mapping set (config.mappings)
  xfRow,      \* the row the returned function is applied to
  xfIdx,      \* forEach: the mapping to apply next
  xfTarget,   \* mutableTarget
  xfStatus,   \* "idle", "running", "returned" or "threw"
  xfThrown,   \* what the failing formula threw
  xfTrace     \* the mappings whose formula was evaluated, in that order

xvars == <<xfConfig, xfRow, xfIdx, xfTarget, xfStatus, xfThrown, xfTrace>>

VARIABLES
  dslFn,      \* the function of the Dsl that is called
  dslIn,      \* the value of the field in the row of the Dsl
  dslReq,     \* the second argument of the call
  dslCalls,   \* calls made: 0, 1, or 2 (titleCase of the first result)
  dslOut,     \* what the call returned or threw
  dslAgain    \* what titleCase of the first result returned or threw

dvars == <<dslFn, dslIn, dslReq, dslCalls, dslOut, dslAgain>>

VARIABLES
  stTransformer, \* wrangle: the transformOptions, a mapping set or a function
  stEnv0,        \* the global environment of the process before the first row
  stEnv,         \* the global environment of the process now
  stRows,        \* the rows the parser delivered to userTransform, in order
  stOutcomes     \* what the callback of userTransform did with each of them

svars == <<stTransformer, stEnv0, stEnv, stRows, stOutcomes>>

\* The chunks the byte source may deliver: 1..MaxChunk lines.
Chunks == UNION {[1..n -> LineKinds] : n \in 1..MaxChunk}

\* A pipe that ignores the destination's high-water mark.
NoBackPressure(buf) == TRUE

\* Back-pressure of pipe(): the destination takes more while its buffer is
\* below the high-water mark.
CanWrite(buf) == Len(buf) < HWM

\* A buffer that hands on its newest element first.
DequeueLast(buf) ==
  [item |-> buf[Len(buf)], rest |-> SubSeq(buf, 1, Len(buf) - 1)]

\* The order in which a stream hands on what it buffered.
Dequeue(buf) == [item |-> Head(buf), rest |-> Tail(buf)]

\* The defect the parser reports for a line it cannot tokenize; it names
\* no row.
ParseDefect == ErrorObj("Invalid Record Length")

\* A listener that logs the defect and does not re-emit it.
OnParserSkipSilent(events, idx, err) == events

\* parser.on('skip', err => outputStream.emit('skip', err))
OnParserSkip(events, idx, err) == Append(events, [idx |-> idx, err |-> err])

RECURSIVE ParseChunk(_, _, _, _)
\* The parser on one chunk (skip_lines_with_error): each line becomes a row
\* of its readable side, or one 'skip' event.
ParseChunk(chunk, base, rows, events) ==
  IF chunk = <<>> THEN [rows |-> rows, events |-> events]
  ELSE IF Head(chunk) = "malformed"
    THEN ParseChunk(Tail(chunk), base + 1, rows,
                    OnParserSkip(events, base + 1, ParseDefect))
  ELSE ParseChunk(Tail(chunk), base + 1, Append(rows, base + 1), events)

\* Whether the pipes have synchronous work left.  A callback runs to its
\* completion: a row the parser emits is written to userTransform and
\* transformed within the same turn of the event loop when the buffers allow
\* it, so the events of the source and of the consumer find the pipes idle.
Busy ==
  \/ pPiped /\ ~tDestroyed /\ ~tEnd /\ pBuf # <<>> /\ CanWrite(tWBuf)
  \/ pPiped /\ ~tDestroyed /\ ~tEnd /\ srcStatus = "ended" /\ pBuf = <<>>
  \/ ~tDestroyed /\ tWBuf # <<>> /\ CanWrite(tRBuf)

\* sourceCsv reads a chunk and pipe() writes it to the parser.
SourceRead ==
  /\ ~Busy
  /\ srcStatus = "open"
  /\ CanWrite(pBuf)
  /\ \E chunk \in Chunks :
       /\ Len(parsed) + Len(chunk) <= MaxLines
       /\ LET r == ParseChunk(chunk, Len(parsed), pBuf, skips) IN
          /\ parsed' = parsed \o chunk
          /\ pBuf' = r.rows
          /\ skips' = r.events
  /\ UNCHANGED <<api, targetLines, srcStatus, pPiped, tWBuf, tRBuf, tEnd, tDestroyed, out,
                 ends, errors, sink, promise, stopAt>>
  /\ UNCHANGED <<xvars, dvars, svars>>

\* sourceCsv, while it flows, reaches the end of the file: it closes, and
\* pipe() ends the parser.
SourceEnd ==
  /\ ~Busy
  /\ srcStatus = "open"
  /\ CanWrite(pBuf)
  /\ srcStatus' = "ended"
  /\ UNCHANGED <<api, targetLines, parsed, pBuf, pPiped, tWBuf, tRBuf, tEnd, tDestroyed, out,
                 skips, ends, errors, sink, promise, stopAt>>
  /\ UNCHANGED <<xvars, dvars, svars>>

\* sourceCsv fails (the byte source becomes unreadable): it emits 'error'
\* and closes.  pipe() forwards neither the error nor an end, and nothing
\* of _wrangle or wrangleFileAsync listens to it.
SourceError ==
  /\ ~Busy
  /\ srcStatus = "open"
  /\ srcStatus' = "errored"
  /\ UNCHANGED <<api, targetLines, parsed, pBuf, pPiped, tWBuf, tRBuf, tEnd, tDestroyed, out,
                 skips, ends, errors, sink, promise, stopAt>>
  /\ UNCHANGED <<xvars, dvars, svars>>

\* parser.pipe(userTransform): one row goes on.
PipeRow ==
  /\ pPiped /\ ~tDestroyed /\ ~tEnd
  /\ pBuf # <<>>
  /\ CanWrite(tWBuf)
  /\ LET d == Dequeue(pBuf) IN
     /\ pBuf' = d.rest
     /\ tWBuf' = Append(tWBuf, d.item)
  /\ UNCHANGED <<api, targetLines, srcStatus, parsed, pPiped, tRBuf, tEnd, tDestroyed, out,
                 skips, ends, errors, sink, promise, stopAt>>
  /\ UNCHANGED <<xvars, dvars, svars>>

\* A pipe made with { end: false }: the end of the parser goes nowhere.
PipeNoEnd ==
  /\ pPiped /\ ~tDestroyed /\ ~tEnd
  /\ srcStatus = "ended" /\ pBuf = <<>>
  /\ pPiped' = FALSE
  /\ UNCHANGED <<api, targetLines, srcStatus, parsed, pBuf, tWBuf, tRBuf, tEnd, tDestroyed,
                 out, skips, ends, errors, sink, promise, stopAt>>
  /\ UNCHANGED <<xfConfig, xfRow, xfIdx, xfTarget, xfStatus, xfThrown, xfTrace>>
  /\ UNCHANGED <<dslFn, dslIn, dslReq, dslCalls, dslOut, dslAgain>>
  /\ UNCHANGED <<stTransformer, stEnv0, stEnv, stRows, stOutcomes>>

\* parser.pipe(userTransform): the parser has ended and is drained, the
\* pipe ends userTransform.
PipeEnd ==
  /\ pPiped /\ ~tDestroyed /\ ~tEnd
  /\ srcStatus = "ended" /\ pBuf = <<>>
  /\ tEnd' = TRUE
  /\ UNCHANGED <<api, targetLines, srcStatus, parsed, pBuf, pPiped, tWBuf, tRBuf, tDestroyed,
                 out, skips, ends, errors, sink, promise, stopAt>>
  /\ UNCHANGED <<xvars, dvars, svars>>

RECURSIVE DigitsOf(_)
\* The decimal digits of a natural number.
DigitsOf(n) ==
  IF n < 10 THEN <<Digits[n + 1]>>
  ELSE Append(DigitsOf(n \div 10), Digits[(n % 10) + 1])

RECURSIVE PadLeft(_, _)
\* A digit text filled with leading zeros up to e digits.
PadLeft(s, e) == IF Len(s) >= e THEN s ELSE PadLeft(<<"0">> \o s, e)

\* The text of a non-negative number m / 10^e.
UnsignedText(m, e) ==
  IF e = 0 THEN DigitsOf(m)
  ELSE DigitsOf(m \div Pow10(e)) \o <<".">> \o PadLeft(DigitsOf(m % Pow10(e)), e)

\* The text of a number.
NumberText(v) ==
  IF v.m < 0 THEN <<"-">> \o UnsignedText(0 - v.m, v.e)
  ELSE UnsignedText(v.m, v.e)

\* JSON.stringify of a member's value: a text in quotes, a number as its
\* decimal text, null and NaN as null.
JsonValue(v) ==
  CASE v.t = "string" -> <<"\"">> \o v.s \o <<"\"">>
    [] v.t = "number" -> NumberText(v)
    [] OTHER -> <<"n", "u", "l", "l">>

\* JSON.stringify(data) + os.EOL: the members of the record whose value is
\* not undefined, each encoded, and the end of the line.
JsonLine(rec) ==
  [members |-> [n \in {x \in DOMAIN rec : rec[x] # Undef} |-> JsonValue(rec[n])],
   eol |-> TRUE]

\* What the callback of userTransform does with a row of each kind.
RowOutcome ==
  [kind \in LineKinds \ {"malformed"} |->
     UserTransform(PipelineConfig, LineRow(kind))]

\* userTransform transforms its next row, once its readable side has room.
\* A pushed record waits for the consumer; a caught failure is emitted as
\* 'skip'; an error that leaves the callback is emitted as 'error' by the
\* transform stream, on which the pipe from the parser unpipes, and the
\* pipeline() of wrangleFileAsync destroys its streams and rejects.  Whether
\* a transform stream that emitted 'error' destroys itself (autoDestroy)
\* depends on the runtime: either may happen.
TransformRow ==
  /\ ~tDestroyed
  /\ tWBuf # <<>>
  /\ CanWrite(tRBuf)
  /\ \E d \in {Dequeue(tWBuf)} :
     \E r \in {RowOutcome[parsed[d.item]]} :
        /\ tWBuf' = d.rest
        /\ tRBuf' = IF r.kind = "push"
                      THEN Append(tRBuf, [idx |-> d.item, rec |-> r.rec])
                    ELSE tRBuf
        /\ skips' = IF r.kind = "skip"
                      THEN Append(skips, [idx |-> d.item, err |-> r.err])
                    ELSE skips
        /\ errors' = IF r.kind = "error" THEN errors + 1 ELSE errors
        /\ pPiped' = IF r.kind = "error" THEN FALSE ELSE pPiped
        /\ tDestroyed' \in {r.kind = "error" /\ (api = "file" \/ autoDestroy) :
                             autoDestroy \in BOOLEAN}
        /\ promise' = IF r.kind = "error" /\ api = "file" THEN "rejected"
                      ELSE promise
  /\ UNCHANGED <<api, targetLines, srcStatus, parsed, pBuf, tEnd, out, ends, sink, stopAt>>
  /\ UNCHANGED <<xvars, dvars, svars>>

\* The consumer takes the next record: outputStream emits it.  The consumer
\* of wrangleFileAsync is jsonTransform piped into the target, which gets
\* the encoded line.
Consume ==
  /\ ~Busy
  /\ sink = "consuming" /\ ~tDestroyed
  /\ tRBuf # <<>>
  /\ LET d == Dequeue(tRBuf) IN
     /\ tRBuf' = d.rest
     /\ out' = Append(out, d.item)
     /\ targetLines' = IF api = "file"
                         THEN Append(targetLines, JsonLine(d.item.rec))
                       ELSE targetLines
  /\ UNCHANGED <<api, srcStatus, parsed, pBuf, pPiped, tWBuf, tEnd, tDestroyed,
                 skips, ends, errors, sink, promise, stopAt>>
  /\ UNCHANGED <<xvars, dvars, svars>>

\* A pipeline() that resolves when userTransform was ended, whatever is left
\* to write.
EndEarly ==
  /\ ~Busy
  /\ sink = "consuming" /\ ~tDestroyed
  /\ tEnd /\ tWBuf = <<>>
  /\ ends = 0
  /\ ends' = 1
  /\ promise' = IF api = "file" THEN "resolved" ELSE promise
  /\ UNCHANGED <<api, targetLines, srcStatus, parsed, pBuf, pPiped, tWBuf, tRBuf,
                 tEnd, tDestroyed, out, skips, errors, sink, stopAt>>
  /\ UNCHANGED <<xvars, dvars, svars>>

\* userTransform was ended and everything it held has been read: it emits
\* 'end'; the pipeline() of wrangleFileAsync then finishes the target and
\* resolves.
End ==
  /\ ~Busy
  /\ sink = "consuming" /\ ~tDestroyed
  /\ tEnd /\ tWBuf = <<>> /\ tRBuf = <<>>
  /\ ends = 0
  /\ ends' = 1
  /\ promise' = IF api = "file" THEN "resolved" ELSE promise
  /\ UNCHANGED <<api, targetLines, srcStatus, parsed, pBuf, pPiped, tWBuf, tRBuf, tEnd,
                 tDestroyed, out, skips, errors, sink, stopAt>>
  /\ UNCHANGED <<xvars, dvars, svars>>

\* The caller's consumer stops taking records: it pauses, its own sink no
\* longer drains, or its destination failed and pipe() unpiped it.
SinkStop ==
  /\ ~Busy
  /\ api = "stream"
  /\ sink = "consuming" /\ ~tDestroyed /\ ends = 0
  /\ sink' = "stopped"
  /\ stopAt' = Len(parsed)
  /\ UNCHANGED <<api, targetLines, srcStatus, parsed, pBuf, pPiped, tWBuf, tRBuf, tEnd,
                 tDestroyed, out, skips, ends, errors, promise>>
  /\ UNCHANGED <<xvars, dvars, svars>>

\* The target of wrangleFileAsync fails: pipeline() destroys the streams it
\* was given (outputStream, jsonTransform, output) and rejects.  sourceCsv
\* and the parser are not among them.
SinkFail ==
  /\ ~Busy
  /\ api = "file"
  /\ sink = "consuming" /\ ~tDestroyed /\ ends = 0
  /\ sink' = "failed"
  /\ stopAt' = Len(parsed)
  /\ tDestroyed' = TRUE
  /\ pPiped' = FALSE
  /\ promise' = "rejected"
  /\ UNCHANGED <<api, targetLines, srcStatus, parsed, pBuf, tWBuf, tRBuf, tEnd, out, skips,
                 ends, errors>>
  /\ UNCHANGED <<xvars, dvars, svars>>

\* The steps the event loop takes by itself.
PipelineStep ==
  \/ SourceRead
  \/ SourceEnd
  \/ PipeRow
  \/ PipeEnd
  \/ TransformRow
  \/ Consume
  \/ End

PipelineInit ==
  /\ api \in {"stream", "file"}
  /\ srcStatus = "open"
  /\ parsed = <<>>
  /\ pBuf = <<>>
  /\ pPiped = TRUE
  /\ tWBuf = <<>>
  /\ tRBuf = <<>>
  /\ tEnd = FALSE
  /\ tDestroyed = FALSE
  /\ out = <<>>
  /\ skips = <<>>
  /\ ends = 0
  /\ errors = 0
  /\ sink = "consuming"
  /\ promise = IF api = "file" THEN "pending" ELSE "none"
  /\ stopAt = -1
  /\ targetLines = <<>>

\* No call of the transformer is traced in the pipeline's specification.
XfIdle ==
  /\ xfConfig = <<>>
  /\ xfRow = GoodRow
  /\ xfIdx = 1
  /\ xfTarget = EmptyTarget
  /\ xfStatus = "idle"
  /\ xfThrown = Undef
  /\ xfTrace = <<>>

\* No call of the Dsl is traced outside its own specification.
DslIdle ==
  /\ dslFn = "value"
  /\ dslIn = Undef
  /\ dslReq = FALSE
  /\ dslCalls = 0
  /\ dslOut = Ok(Undef)
  /\ dslAgain = Ok(Undef)

\* No row is traced through the transform stage outside its own
\* specification.
StageIdle ==
  /\ stTransformer = [kind |-> "config", mappings |-> <<>>, blank |-> Undef]
  /\ stEnv0 = 0
  /\ stEnv = 0
  /\ stRows = <<>>
  /\ stOutcomes = <<>>

Next ==
  \/ SourceRead
  \/ SourceEnd
  \/ SourceError
  \/ PipeRow
  \/ PipeEnd
  \/ TransformRow
  \/ Consume
  \/ End
  \/ SinkStop
  \/ SinkFail

vars == <<pvars, xvars, dvars, svars>>

Init ==
  /\ PipelineInit
  /\ XfIdle
  /\ DslIdle
  /\ StageIdle

Spec == Init /\ [][Next]_vars

\* The event loop runs a callback that is ready.
SpecLive == Spec /\ WF_vars(PipelineStep)

(* ------------------- the transformer, step by step -------------------- *)

\* A file whose header has no Count column: row['Count'] is undefined.
NoCountRow == [GoodRow EXCEPT !["Count"] = Undef]

XfRows == {GoodRow, BadNumRow, NoUnitRow, NoCountRow}

XfNames == {"OrderID", "Unit", "__proto__"}

XfFormulas ==
  {Lit(Str(TextKg)), OfCol("value", "Unit"), OfCol("float", "Count"),
   OfCol("integer", "Order"), OfCol("titleCase", "Unit"), OfCol("orThrow", "Unit"),
   Unparsable, UnknownName}

XfMappings == [name : XfNames, formula : XfFormulas]

XfConfigs == UNION {[1..n -> XfMappings] : n \in 0..MaxMappings}

InitXf ==
  /\ PipelineInit /\ api = "stream"
  /\ xfConfig \in XfConfigs
  /\ xfRow \in XfRows
  /\ xfIdx = 1
  /\ xfTarget = EmptyTarget
  /\ xfStatus = "running"
  /\ xfThrown = Undef
  /\ xfTrace = <<>>
  /\ DslIdle
  /\ StageIdle

\* A loop that notes a throw and goes on with the next mapping.
XfApplyContinue ==
  /\ xfStatus \in {"running", "threw"}
  /\ xfIdx <= Len(xfConfig)
  /\ xfTrace' = Append(xfTrace, xfIdx)
  /\ xfIdx' = xfIdx + 1
  /\ \E r \in {ApplyMapping(xfTarget, xfConfig[xfIdx], xfRow)} :
     IF r.ok
       THEN /\ xfTarget' = r.val
            /\ UNCHANGED <<xfStatus, xfThrown>>
       ELSE /\ xfStatus' = "threw"
            /\ xfThrown' = r.thrown
            /\ UNCHANGED xfTarget
  /\ UNCHANGED <<xfConfig, xfRow>>
  /\ UNCHANGED <<pvars, dvars, svars>>

\* One iteration of config.mappings.forEach.
XfApply ==
  /\ xfStatus = "running"
  /\ xfIdx <= Len(xfConfig)
  /\ xfTrace' = Append(xfTrace, xfIdx)
  /\ \E r \in {ApplyMapping(xfTarget, xfConfig[xfIdx], xfRow)} :
     IF r.ok
       THEN /\ xfTarget' = r.val
            /\ xfIdx' = xfIdx + 1
            /\ UNCHANGED <<xfStatus, xfThrown>>
       ELSE /\ xfStatus' = "threw"
            /\ xfThrown' = r.thrown
            /\ UNCHANGED <<xfTarget, xfIdx>>
  /\ UNCHANGED <<xfConfig, xfRow>>
  /\ UNCHANGED <<pvars, dvars, svars>>

\* return mutableTarget
XfReturn ==
  /\ xfStatus = "running"
  /\ xfIdx > Len(xfConfig)
  /\ xfStatus' = "returned"
  /\ UNCHANGED <<xfConfig, xfRow, xfIdx, xfTarget, xfThrown, xfTrace>>
  /\ UNCHANGED <<pvars, dvars, svars>>

NextXf ==
  \/ XfApply
  \/ XfReturn

SpecXf == InitXf /\ [][NextXf]_vars

(* -------------------- the functions of the Dsl, called --------------- *)

\* The characters of the field texts.
DslChars == {"1", "5", ",", ".", "-", " ", "a", "B"}

\* The field texts: all short ones, and the texts of the tests.
DslTexts ==
  UNION {[1..n -> DslChars] : n \in 0..MaxText}
    \cup {Text5250, Text1000,
          <<"-", "1", ".", "5">>,
          <<"1", "0", "0", "0", ".", "8">>,
          <<"1", ",", "0", "0", "0", ",", "0", "0", "0">>,
          <<"i", "c", "e", "b", "e", "r", "g", " ", "l", "e", "t", "t", "u", "c", "e">>}

\* What a row may hold under a name: a text, nothing (the name is absent),
\* null, or a number (a row that did not come from the parser).
DslInputs ==
  {Str(s) : s \in DslTexts}
    \cup {Undef, Null, Num(1212233, 3), Num(1000, 0), Num(10008, 1), Num(-15, 1)}

\* The name the functions are called with.
DslName == "Count"

\* new Dsl(row)
DslRow == [GoodRow EXCEPT ![DslName] = dslIn]

\* A call with a second argument: value, float and integer declare one
\* parameter, and a call ignores the arguments beyond the parameters.
DslValueCall(row, name, required) == DslValue(row, name)

DslFloatCall(row, name, required) == DslFloat(row, name)

DslIntegerCall(row, name, required) == DslInteger(row, name)

InitDsl ==
  /\ PipelineInit /\ api = "stream"
  /\ XfIdle
  /\ dslFn \in {"value", "float", "integer", "titleCase"}
  /\ dslIn \in DslInputs
  /\ dslReq \in BOOLEAN
  /\ dslCalls = 0
  /\ dslOut = Ok(Undef)
  /\ dslAgain = Ok(Undef)
  /\ StageIdle

\* dsl.value(name, required)
CallValue ==
  /\ dslFn = "value" /\ dslCalls = 0
  /\ dslOut' = DslValueCall(DslRow, DslName, dslReq)
  /\ dslCalls' = 1
  /\ UNCHANGED <<dslFn, dslIn, dslReq, dslAgain>>
  /\ UNCHANGED <<pvars, xvars, svars>>

\* dsl.float(name, required)
CallFloat ==
  /\ dslFn = "float" /\ dslCalls = 0
  /\ dslOut' = DslFloatCall(DslRow, DslName, dslReq)
  /\ dslCalls' = 1
  /\ UNCHANGED <<dslFn, dslIn, dslReq, dslAgain>>
  /\ UNCHANGED <<pvars, xvars, svars>>

\* dsl.integer(name, required)
CallInteger ==
  /\ dslFn = "integer" /\ dslCalls = 0
  /\ dslOut' = DslIntegerCall(DslRow, DslName, dslReq)
  /\ dslCalls' = 1
  /\ UNCHANGED <<dslFn, dslIn, dslReq, dslAgain>>
  /\ UNCHANGED <<pvars, xvars, svars>>

\* dsl.titleCase(dsl.value(name))
CallTitleCase ==
  /\ dslFn = "titleCase" /\ dslCalls = 0
  /\ dslOut' = DslTitleCase(DslValue(DslRow, DslName).val)
  /\ dslCalls' = 1
  /\ UNCHANGED <<dslFn, dslIn, dslReq, dslAgain>>
  /\ UNCHANGED <<pvars, xvars, svars>>

\* dsl.titleCase of what the first call returned.
CallTitleCaseAgain ==
  /\ dslFn = "titleCase" /\ dslCalls = 1
  /\ dslOut.ok
  /\ dslAgain' = DslTitleCase(dslOut.val)
  /\ dslCalls' = 2
  /\ UNCHANGED <<dslFn, dslIn, dslReq, dslOut>>
  /\ UNCHANGED <<pvars, xvars, svars>>

NextDsl ==
  \/ CallValue
  \/ CallFloat
  \/ CallInteger
  \/ CallTitleCase
  \/ CallTitleCaseAgain

SpecDsl == InitDsl /\ [][NextDsl]_vars

(* ------------- the transform stage, one row after another ------------- *)

\* The rows one run of the stage handles.
MaxRows == 3

\* A formula over a global of the process:
\* (globalThis.n = (globalThis.n || 0) + 1).
Counter == [op |-> "counter"]

\* mapFn.call(context, ...Object.values(context)) in a process whose global
\* n is env.  Function(...) makes a function of the global scope, whose body
\* sees the parameters (the keys of the Dsl) and every global: the value or
\* the throw of the formula, and the global environment after it.
EvalIn(formula, row, env) ==
  IF formula.op = "counter"
    THEN [r |-> Ok(Num(env + 1, 0)), env |-> env + 1]
    ELSE [r |-> Eval(formula, row), env |-> env]

RECURSIVE IterateIn(_, _, _, _, _)
\* config.mappings.forEach from mapping i on, in the global environment env.
ForEachIn(mappings, i, target, row, env) ==
  IF i > Len(mappings) THEN [r |-> Ok(target), env |-> env]
  ELSE IterateIn(mappings, i, target, EvalIn(mappings[i].formula, row, env), row)

\* After the formula of mapping i gave e: its value is assigned, a throw
\* leaves the loop.
IterateIn(mappings, i, target, e, row) ==
  IF e.r.ok
    THEN ForEachIn(mappings, i + 1, Assign(target, mappings[i].name, e.r.val),
                   row, e.env)
    ELSE e

\* A mapping set with a formula over a global.
CounterConfig ==
  << [name |-> "OrderID", formula |-> OfCol("integer", "Order")],
     [name |-> "Seq", formula |-> Counter] >>

\* A caller-supplied transformer, row => row.Unit ? row : blank: a filter
\* that gives blank (undefined or null) for a row it leaves out.
CallFunction(options, row) ==
  IF Falsy(row["Unit"]) THEN Ok(options.blank) ELSE Ok(row)

\* The transformOptions wrangle is called with.
StageTransformers ==
  {[kind |-> "config", mappings |-> c, blank |-> Undef] :
     c \in {PipelineConfig, CounterConfig}}
    \cup {[kind |-> "function", mappings |-> <<>>, blank |-> b] :
            b \in {Undef, Null}}

\* typeof transformOptions === 'function' ? config : buildTransformer(config),
\* applied to a row in the global environment env.
WrangleTransformer(options, row, env) ==
  IF options.kind = "function"
    THEN [r |-> CallFunction(options, row), env |-> env]
    ELSE ForEachIn(options.mappings, 1, EmptyTarget, row, env)

\* What transform() does with the value its handler returned: undefined and
\* null are not pushed.
Emits(tc) == tc.kind = "push" /\ tc.rec \notin {Undef, Null}

\* What the stage did with a row: pushed a record, emitted 'skip', emitted
\* 'error', or nothing at all.
StageOutcome(tc) ==
  IF tc.kind = "push" /\ ~Emits(tc) THEN [kind |-> "none"] ELSE tc

\* The rows the parser delivers.
StageRows == {GoodRow, BadNumRow, NoUnitRow}

InitStage ==
  /\ PipelineInit /\ api = "stream"
  /\ XfIdle
  /\ DslIdle
  /\ stTransformer \in StageTransformers
  /\ stEnv0 \in {0, 1}
  /\ stEnv = stEnv0
  /\ stRows = <<>>
  /\ stOutcomes = <<>>

\* The callback of userTransform on the next row.
StageRow ==
  /\ Len(stRows) < MaxRows
  /\ \E row \in StageRows :
     \E e \in {WrangleTransformer(stTransformer, row, stEnv)} :
       /\ stRows' = Append(stRows, row)
       /\ stOutcomes' = Append(stOutcomes, StageOutcome(TryCatch(e.r, row)))
       /\ stEnv' = e.env
  /\ UNCHANGED <<stTransformer, stEnv0>>
  /\ UNCHANGED <<pvars, xvars, dvars>>

NextStage == StageRow

SpecStage == InitStage /\ [][NextStage]_vars

\* ---------------------------------------------------------------------
\* Properties of the pipeline (Spec, SpecLive)

Range(seq) == {seq[i] : i \in 1..Len(seq)}

\* The lines read so far, by their position in the file.
LineIdx == 1..Len(parsed)

\* The positions of the lines the parser accepted, in file order.
ValidSeq == SelectSeq([i \in LineIdx |-> i], LAMBDA i : parsed[i] # "malformed")

\* The rows that wait for userTransform.
Pending == tWBuf \o pBuf

\* The rows userTransform has been called with, in file order.
ProcessedSeq == SelectSeq(ValidSeq, LAMBDA i : i \notin Range(Pending))

\* What the transformer does with a line of each kind the parser accepts.
KindResult ==
  [kind \in LineKinds \ {"malformed"} |->
     Transformer(PipelineConfig, LineRow(kind))]

\* What the transformer does with line i.
Result(i) == KindResult[parsed[i]]

\* The records userTransform pushed: those emitted, then those that wait.
Pushed == out \o tRBuf

PushedIdx == [k \in 1..Len(Pushed) |-> Pushed[k].idx]

SkipsOf(i) == {k \in 1..Len(skips) : skips[k].idx = i}

\* C1: when a mapping formula throws while a row is transformed, no record
\* is emitted for the row, exactly one skip event carrying the failure and
\* the row is emitted, and the stream does not fail because of it.
C1_FailedRowSkipped ==
  \A i \in Range(ProcessedSeq) :
    ~Result(i).ok =>
      /\ i \notin Range(PushedIdx)
      /\ Cardinality(SkipsOf(i)) = 1
      /\ \A k \in SkipsOf(i) : skips[k].err.row = LineRow(parsed[i])
      /\ errors = 0

\* C2: a line the parser cannot tokenize gives exactly one skip event that
\* carries the parse defect and no row, and never reaches the transformer;
\* the valid lines go to the transformer in file order, and what was pushed
\* and skipped for them is what the transformer gives for each of them,
\* whatever malformed lines lie between them.
C2_ParseDefectSkipped ==
  /\ \A i \in LineIdx :
       parsed[i] = "malformed" =>
         /\ Cardinality(SkipsOf(i)) = 1
         /\ \A k \in SkipsOf(i) : skips[k].err = ParseDefect
         /\ i \notin Range(Pending) \cup Range(PushedIdx)
  /\ \E n \in 0..Len(ValidSeq) :
       /\ ProcessedSeq = SubSeq(ValidSeq, 1, n)
       /\ Pending = SubSeq(ValidSeq, n + 1, Len(ValidSeq))
  /\ PushedIdx = SelectSeq(ProcessedSeq, LAMBDA i : Result(i).ok)
  /\ \A k \in 1..Len(Pushed) : Pushed[k].rec = Result(Pushed[k].idx).val
  /\ \A i \in Range(ProcessedSeq) :
       (~Result(i).ok /\ IsObject(Result(i).thrown)) =>
         Cardinality(SkipsOf(i)) = 1

\* A malformed line between two valid lines, both of them emitted.
C2_Witness ==
  \E i, j, k \in LineIdx :
    /\ i < j /\ j < k
    /\ parsed[j] = "malformed"
    /\ {i, k} \subseteq {out[n].idx : n \in 1..Len(out)}
    /\ Cardinality(SkipsOf(j)) = 1

\* C3: the records are emitted in the order of their rows in the source.
C3_SourceOrder ==
  \A a, b \in 1..Len(out) : a < b => out[a].idx < out[b].idx

\* Two records emitted around a row that was skipped.
C3_Witness ==
  \E a \in 1..Len(out) :
    /\ a < Len(out)
    /\ out[a + 1].idx > out[a].idx + 1

\* ---------------------------------------------------------------------
\* Properties of the row transformer (SpecXf)

\* The distinct mapping names of the mapping set.
XfNamesOf == {xfConfig[i].name : i \in 1..Len(xfConfig)}

\* The last mapping of the set with the name.
LastOf(name) ==
  CHOOSE i \in 1..Len(xfConfig) :
    /\ xfConfig[i].name = name
    /\ \A j \in 1..Len(xfConfig) : xfConfig[j].name = name => j <= i

\* C4: when every formula of the mapping set evaluates without error, the
\* record the transformer returns has exactly one entry per distinct
\* mapping name and no other entry, and the value under a name is the
\* result of the last mapping with that name on the row.
C4_OneEntryPerName ==
  xfStatus = "returned" =>
    /\ DOMAIN xfTarget = XfNamesOf
    /\ \A name \in XfNamesOf :
         xfTarget[name] = Eval(xfConfig[LastOf(name)].formula, xfRow).val

\* C5: transforming a row is all or nothing: a record that is emitted has
\* an entry for every distinct mapping name, and when a mapping fails what
\* was built for the row so far is not emitted.
C5_AllOrNothing ==
  /\ xfStatus = "returned" =>
       /\ TryCatch(Ok(xfTarget), xfRow).kind = "push"
       /\ XfNamesOf \subseteq DOMAIN TryCatch(Ok(xfTarget), xfRow).rec
  /\ xfStatus = "threw" =>
       TryCatch(Throw(xfThrown), xfRow).kind # "push"

\* ---------------------------------------------------------------------
\* Properties of the pipeline: failures, completion, back-pressure

\* Nothing is left that the event loop would do by itself.
AtRest == ~ENABLED PipelineStep

\* C6: a failure of the byte source is reported as a fatal error: the
\* output stream emits 'error', and the promise of wrangleFileAsync is
\* rejected; the pipeline does not stay open without completing.
C6_SourceFailureReported ==
  (srcStatus = "errored" /\ AtRest) =>
    /\ errors >= 1
    /\ api = "file" => promise = "rejected"

\* No failure of the source, no fatal error, and a consumer that goes on.
Undisturbed ==
  /\ srcStatus # "errored"
  /\ errors = 0
  /\ sink = "consuming"

\* Every line read has had its effect: a record for each row that
\* transformed, one skip event for every other line.
Complete ==
  /\ srcStatus = "ended"
  /\ Pending = <<>>
  /\ [k \in 1..Len(out) |-> out[k].idx] = SelectSeq(ValidSeq, LAMBDA i : Result(i).ok)
  /\ \A k \in 1..Len(out) : out[k].rec = Result(out[k].idx).val
  /\ \A i \in LineIdx :
       (parsed[i] = "malformed" \/ ~Result(i).ok) => Cardinality(SkipsOf(i)) = 1
  /\ Len(skips) = Cardinality({i \in LineIdx : SkipsOf(i) # {}})

\* C7: when the source ends and nothing fatal happens, the pipeline
\* completes exactly once ('end' on the output stream, the promise of
\* wrangleFileAsync resolved), and by then a record has been emitted for
\* every row that transformed and a skip event for every parse defect and
\* every failed row.
C7_CompletesOnce ==
  /\ <>(ends = 1 \/ ~Undisturbed)
  /\ [](ends <= 1)
  /\ []((ends = 1 /\ errors = 0) =>
          /\ Complete
          /\ api = "file" => promise = "resolved")

\* The pipeline has completed after lines of every kind that does not stop
\* it: records, a parse defect and a failed row.
C7_Witness ==
  /\ ends = 1
  /\ Len(out) >= 2
  /\ \E i, j \in LineIdx : parsed[i] = "malformed" /\ parsed[j] = "badnum"

\* The pipeline has reported its outcome: 'end' or 'error' on the output
\* stream, or the promise of wrangleFileAsync settled.
Reported ==
  \/ ends + errors >= 1
  \/ promise \in {"resolved", "rejected"}

\* C8: the pipeline reports its outcome exactly once, and after the report
\* no further row is read from the source, no further record is emitted and
\* no further skip event is emitted.
C8_NothingAfterReport ==
  [][Reported =>
       /\ parsed' = parsed
       /\ out' = out
       /\ skips' = skips
       /\ ends' = ends
       /\ errors' = errors
       /\ promise' = promise]_vars

\* The rows read from the source that the consumer has not taken and that
\* were not skipped.
InFlight == Len(pBuf) + Len(tWBuf) + Len(tRBuf)

\* What the buffers of the parser and of userTransform hold at most: the
\* parser takes a whole chunk while it is below its mark.
InFlightBound == (HWM - 1 + MaxChunk) + HWM + HWM

\* The lines read after the consumer stopped.
ReadAfterStop == {i \in LineIdx : i > stopAt}

\* C9 as stated: the rows in flight stay within a bound that does not depend
\* on the length of the input, and once the consumer has stopped, at most
\* that many further rows are read from the source.
C9_ReadingStops ==
  /\ InFlight <= InFlightBound
  /\ sink # "consuming" => Cardinality(ReadAfterStop) <= InFlightBound

\* C9, amended: the rows in flight stay within the bound, and once the
\* consumer has stopped, at most that many further rows that are not
\* skipped are read; lines that are skipped do not count, the source goes
\* on being read while they come.
C9_InFlightBounded ==
  /\ InFlight <= InFlightBound
  /\ sink # "consuming" =>
       Cardinality({i \in ReadAfterStop : SkipsOf(i) = {}}) <= InFlightBound

\* The consumer has stopped, the buffers are full, and more lines than the
\* bound were read since, a skipped one among them.
C9_Witness ==
  /\ sink = "stopped"
  /\ InFlight = InFlightBound
  /\ Cardinality(ReadAfterStop) > InFlightBound

\* C10: when the consumer terminates early, the pipeline stops reading the
\* source and releases it: no source stream stays open once the pipeline has
\* come to rest.
C10_SourceReleased ==
  (sink # "consuming" /\ AtRest) => srcStatus # "open"

\* ---------------------------------------------------------------------
\* Properties of the skip events

\* The skip event stems from the parser.
IsParseDefect(event) == parsed[event.idx] = "malformed"

\* C11: parse defects and transform failures are emitted as the same event
\* of the output stream, and an emitted failure carries a row if and only
\* if it is a transform failure: a transform failure carries the row that
\* failed, a parse defect carries none.
C11_RowIffTransformFailure ==
  \A k \in 1..Len(skips) :
    /\ IsParseDefect(skips[k]) => "row" \notin DOMAIN skips[k].err
    /\ ~IsParseDefect(skips[k]) =>
         /\ "row" \in DOMAIN skips[k].err
         /\ skips[k].err.row = LineRow(parsed[skips[k].idx])
         /\ ~Result(skips[k].idx).ok

\* A parse defect and a transform failure have both been emitted.
C11_Witness ==
  \E j, k \in 1..Len(skips) :
    /\ IsParseDefect(skips[j])
    /\ ~IsParseDefect(skips[k])

\* ---------------------------------------------------------------------
\* Properties of the functions of the Dsl (SpecDsl)

\* The field is absent from the row, or holds the null marker.
Missing(v) == v.t \in {"undefined", "null"}

\* The kind of a failure of a conversion function, by what it says.
FailureKind(thrown) ==
  IF thrown.t # "Error" THEN "NoError"
  ELSE IF thrown.message = DslName \o " is not a number" THEN "NotANumber"
  ELSE IF thrown.message \in {DslName \o " is undefined",
                              DslName \o " is not in the source row"}
    THEN "MissingField"
  ELSE "TypeMismatch"

\* C12: value(name, true) fails with a missing-field error when the name
\* is absent from the row or holds null; value(name, false) never fails,
\* and gives undefined for an absent field and the stored value for a
\* present one.
C12_ValueRequired ==
  (dslFn = "value" /\ dslCalls = 1) =>
    IF dslReq /\ Missing(dslIn)
      THEN ~dslOut.ok /\ FailureKind(dslOut.thrown) = "MissingField"
    ELSE dslOut = Ok(dslIn)

\* C13: float(name) and integer(name), called without a second argument
\* on a row that does not have the field, fail as a missing field and not
\* as a text that is no number.
C13_AbsentIsMissingField ==
  (dslFn \in {"float", "integer"} /\ dslCalls = 1 /\ ~dslReq /\ dslIn = Undef) =>
    /\ ~dslOut.ok
    /\ FailureKind(dslOut.thrown) = "MissingField"
    /\ FailureKind(dslOut.thrown) # "NotANumber"

\* integer has been called on a row without the field.
C13_Witness ==
  /\ dslFn = "integer" /\ dslCalls = 1 /\ ~dslReq /\ dslIn = Undef
  /\ ~dslOut.ok

\* The text without its commas, by position.
WithoutCommas(s) ==
  LET keep == {i \in 1..Len(s) : s[i] # ","}
      nth(k) == CHOOSE i \in keep : Cardinality({j \in keep : j < i}) = k - 1
  IN [k \in 1..Cardinality(keep) |-> s[nth(k)]]

\* A decimal literal: digits around at most one point, one digit at least.
IsDecimalLiteral(body) ==
  /\ \A i \in 1..Len(body) : body[i] \in {"."} \cup Range(Digits)
  /\ Cardinality({i \in 1..Len(body) : body[i] = "."}) <= 1
  /\ \E i \in 1..Len(body) : body[i] # "."

\* The text reads as a number: blank, or a decimal literal with an
\* optional sign, white space around it aside.
IsNumericText(s) ==
  LET t == TrimRight(TrimLeft(s)) IN
  \/ t = <<>>
  \/ IsDecimalLiteral(t)
  \/ t[1] \in {"-", "+"} /\ IsDecimalLiteral(Tail(t))

\* C14: float fails with '<name> is not a number' for every field text
\* that, its commas removed, does not read as a number, and never returns
\* NaN; the transform stage reports such a row as a skip event with that
\* message.
C14_NotANumber ==
  (dslFn = "float" /\ dslCalls = 1 /\ dslIn.t = "string") =>
    /\ dslOut.ok => dslOut.val.t = "number"
    /\ dslOut.ok <=> IsNumericText(WithoutCommas(dslIn.s))
    /\ ~dslOut.ok =>
         /\ dslOut.thrown = ErrorObj(DslName \o " is not a number")
         /\ TryCatch(dslOut, DslRow).kind = "skip"
         /\ TryCatch(dslOut, DslRow).err.message = DslName \o " is not a number"

\* float has been called on a text with a comma that is no number.
C14_Witness ==
  /\ dslFn = "float" /\ dslCalls = 1
  /\ dslIn = Str(<<"1", ",", "a">>)
  /\ ~dslOut.ok

\* k is the greatest integer that is not above x.
IsFloorOf(k, x) ==
  /\ k.t = "number" /\ k.e = 0
  /\ k.m * Pow10(x.e) <= x.m
  /\ x.m < (k.m + 1) * Pow10(x.e)

\* C15: integer is the floor of float, rounding toward negative infinity
\* (integer of "-1.5" is -2, of "1000.8" is 1000), and integer fails
\* exactly when float fails, with the same failure.
C15_IntegerIsFloor ==
  (dslFn = "integer" /\ dslCalls = 1) =>
    /\ dslOut.ok <=> DslFloatCall(DslRow, DslName, dslReq).ok
    /\ dslOut.ok => IsFloorOf(dslOut.val, DslFloatCall(DslRow, DslName, dslReq).val)
    /\ ~dslOut.ok => dslOut = DslFloatCall(DslRow, DslName, dslReq)
    /\ dslIn = Str(<<"-", "1", ".", "5">>) => dslOut = Ok(Num(-2, 0))
    /\ dslIn = Str(<<"1", "0", "0", "0", ".", "8">>) => dslOut = Ok(Num(1000, 0))

\* integer has been called on the text "-1.5".
C15_Witness ==
  /\ dslFn = "integer" /\ dslCalls = 1
  /\ dslIn = Str(<<"-", "1", ".", "5">>)
  /\ dslOut.ok

\* The row whose field holds the text without its commas.
RowWithoutCommas == [GoodRow EXCEPT ![DslName] = Str(WithoutCommas(dslIn.s))]

\* C16: float removes every comma of the field text before it parses: a
\* text with commas gives what the text without them gives; "5,250.50"
\* gives 5250.50.
C16_CommasRemoved ==
  (dslFn = "float" /\ dslCalls = 1 /\ dslIn.t = "string") =>
    /\ dslOut = DslFloatCall(RowWithoutCommas, DslName, dslReq)
    /\ IsNumericText(WithoutCommas(dslIn.s)) => dslOut.ok
    /\ dslIn = Str(Text5250) => dslOut = Ok(Num(525050, 2))

\* float has been called on a number with two commas.
C16_Witness ==
  /\ dslFn = "float" /\ dslCalls = 1
  /\ dslIn = Str(<<"1", ",", "0", "0", "0", ",", "0", "0", "0">>)
  /\ dslOut = Ok(Num(1000000, 0))

\* C17: float and integer on a field that already holds a number do not
\* fail: float returns the number, integer its floor.
C17_NumberField ==
  (dslFn \in {"float", "integer"} /\ dslCalls = 1 /\ dslIn.t = "number") =>
    /\ dslOut.ok
    /\ dslFn = "float" => dslOut.val = dslIn
    /\ dslFn = "integer" => IsFloorOf(dslOut.val, dslIn)

TextIceberg ==
  <<"i", "c", "e", "b", "e", "r", "g", " ", "l", "e", "t", "t", "u", "c", "e">>

TextIcebergTitle ==
  <<"I", "c", "e", "b", "e", "r", "g", " ", "L", "e", "t", "t", "u", "c", "e">>

\* C18: titleCase is idempotent on every text, the empty text and texts
\* with leading, trailing or repeated spaces included:
\* titleCase(titleCase(s)) = titleCase(s); and titleCase("iceberg lettuce")
\* is "Iceberg Lettuce".
C18_TitleCaseIdempotent ==
  (dslFn = "titleCase" /\ dslIn.t = "string") =>
    /\ dslCalls >= 1 => dslOut.ok
    /\ dslCalls = 2 => dslAgain = dslOut
    /\ (dslCalls >= 1 /\ dslIn = Str(TextIceberg)) => dslOut = Ok(Str(TextIcebergTitle))

\* The positions of the spaces of a text.
SpacesOf(s) == {i \in 1..Len(s) : s[i] = " "}

\* The text has a leading or a trailing space, or two spaces in a row.
HasEmptyWord(s) ==
  /\ s # <<>>
  /\ \/ s[1] = " "
     \/ s[Len(s)] = " "
     \/ \E i \in 1..(Len(s) - 1) : s[i] = " " /\ s[i + 1] = " "

\* C19: titleCase of a text with two or more spaces in a row, or with a
\* leading or trailing space, does not fail and returns a text with the
\* spaces where they were.
C19_SpacesPreserved ==
  (dslFn = "titleCase" /\ dslCalls >= 1 /\ dslIn.t = "string"
     /\ HasEmptyWord(dslIn.s)) =>
    /\ dslOut.ok
    /\ dslOut.val.t = "string"
    /\ Len(dslOut.val.s) = Len(dslIn.s)
    /\ SpacesOf(dslOut.val.s) = SpacesOf(dslIn.s)

\* ---------------------------------------------------------------------
\* Properties of failing formulas (SpecXf)

\* The formulas that fail as C20 names them: one that cannot be parsed,
\* one that uses a name that is not defined, one that calls a conversion
\* function.
FailsAsFormulaError(formula) ==
  formula.op \in {"unparsable", "unknownName", "float", "integer", "titleCase"}

\* C20: a formula that cannot be parsed, that uses a name that is not
\* defined, or whose conversion function fails, fails for the row only: the
\* row gives one skip event that carries it and no record, and no error
\* leaves the transform stage.
C20_FormulaErrorRowScoped ==
  /\ (xfStatus = "threw" /\ FailsAsFormulaError(xfConfig[xfIdx].formula)) =>
       /\ TryCatch(Throw(xfThrown), xfRow).kind = "skip"
       /\ "row" \in DOMAIN TryCatch(Throw(xfThrown), xfRow).err
       /\ TryCatch(Throw(xfThrown), xfRow).err.row = xfRow
  /\ xfStatus = "returned" =>
       \A i \in 1..Len(xfConfig) :
         xfConfig[i].formula.op \notin {"unparsable", "unknownName"}

\* A formula that cannot be parsed has failed after an earlier mapping of
\* the row was applied.
C20_Witness ==
  /\ xfStatus = "threw"
  /\ xfIdx = 2
  /\ xfConfig[xfIdx].formula = Unparsable

\* ---------------------------------------------------------------------
\* Properties of the transform stage (SpecStage)

\* What the stage does with a row when the global environment is env.
OutcomeIn(options, row, env) ==
  StageOutcome(TryCatch(WrangleTransformer(options, row, env).r, row))

\* The rows the stage has handled, by their position.
StageIdx == 1..Len(stRows)

\* C21: a formula is isolated from the global environment of the process.
\* With a mapping set as the transformer, the global environment stays what
\* it was before the first row, and the outcome of every row is the outcome
\* the same mapping set gives for that row in any other global environment
\* (here: the one whose global n is 0).
C21_FormulaIsolated ==
  stTransformer.kind = "config" =>
    /\ stEnv = stEnv0
    /\ \A k \in StageIdx :
         stOutcomes[k] = OutcomeIn(stTransformer, stRows[k], 0)

\* ---------------------------------------------------------------------
\* Properties of wrangleFileAsync (Spec)

FormulaFails(i) == ~Eval(xfConfig[i].formula, xfRow).ok

\* The mappings whose formula fails on the row.
FailingMappings == {i \in 1..Len(xfConfig) : FormulaFails(i)}

\* The first of them in the declared order.
FirstFailing == CHOOSE i \in FailingMappings : \A j \in FailingMappings : i <= j

\* C23: the mappings of a row are evaluated in their declared order, each
\* once; the row fails at the first mapping whose formula fails, no mapping
\* after that one is evaluated, and what is thrown is what that mapping's
\* formula threw; a row without a failing mapping has every mapping
\* evaluated before its record is returned.
C23_DeclaredOrderFirstFailure ==
  /\ xfTrace = [k \in 1..Len(xfTrace) |-> k]
  /\ xfStatus = "threw" =>
       /\ FailingMappings # {}
       /\ Len(xfTrace) = FirstFailing
       /\ xfThrown = Eval(xfConfig[FirstFailing].formula, xfRow).thrown
  /\ xfStatus = "returned" =>
       /\ FailingMappings = {}
       /\ Len(xfTrace) = Len(xfConfig)
  /\ xfStatus = "running" =>
       \A k \in 1..Len(xfTrace) : ~FormulaFails(k)

\* Both mappings fail, with different throws: the row failed at the first,
\* the second was not evaluated.
C23_Witness ==
  /\ xfStatus = "threw"
  /\ Len(xfConfig) = 2
  /\ xfTrace = <<1>>
  /\ FormulaFails(2)
  /\ Eval(xfConfig[2].formula, xfRow).thrown # xfThrown

\* ---------------------------------------------------------------------
\* Properties of the rows of one run (SpecStage)

\* C24: with a mapping set as the transformer, the outcome of a row is
\* determined by the row alone: wherever the row stands in the stream, its
\* outcome is the one it has as the first row of the run.
C24_RowAlone ==
  stTransformer.kind = "config" =>
    \A k \in StageIdx :
      stOutcomes[k] = OutcomeIn(stTransformer, stRows[k], stEnv0)

\* The rows of the run with an outcome of the given kind.
RowsWith(kind) == {k \in StageIdx : stOutcomes[k].kind = kind}

\* C25: conservation of rows.  For every row delivered to the transform
\* stage there is either an output record or a 'skip' event carrying that
\* row, so the rows delivered are as many as the records and the skips
\* together, with a mapping set and with a caller's function alike.
C25_RowsConserved ==
  /\ \A k \in StageIdx :
       \/ stOutcomes[k].kind = "push"
       \/ /\ stOutcomes[k].kind = "skip"
          /\ stOutcomes[k].err.row = stRows[k]
  /\ Len(stRows) = Cardinality(RowsWith("push")) + Cardinality(RowsWith("skip"))

\* ---------------------------------------------------------------------
\* Properties of the failure handler (Spec)

\* C26: the catch block of userTransform does not fail.  Whatever value the
\* transformer threw for a row, there is one 'skip' event for the row, and
\* the transform stream never emits 'error': the pipe from the parser stays
\* in place unless the consumer failed, and the promise of wrangleFileAsync
\* is rejected only when its target failed.
C26_HandlerNeverFails ==
  /\ errors = 0
  /\ \A i \in Range(ProcessedSeq) :
       ~Result(i).ok => Cardinality(SkipsOf(i)) = 1
  /\ promise = "rejected" => sink = "failed"

\* ---------------------------------------------------------------------
\* Properties of the empty cell (SpecDsl)

\* A mapping set with the called function on the field as its one formula.
EmptyCellConfig == <<[name |-> "Quantity", formula |-> OfCol(dslFn, DslName)]>>

\* C27: float and integer of a field that holds the empty text return 0 and
\* do not throw, so the row with the empty cell is pushed with the value 0
\* and not skipped.
C27_EmptyCellIsZero ==
  (dslFn \in {"float", "integer"} /\ dslIn = Str(<<>>) /\ dslCalls = 1) =>
    /\ dslOut = Ok(Num(0, 0))
    /\ UserTransform(EmptyCellConfig, DslRow)
         = [kind |-> "push", rec |-> [n \in {"Quantity"} |-> Num(0, 0)]]

\* integer was called on the empty cell and returned.
C27_Witness ==
  /\ dslFn = "integer" /\ dslIn = Str(<<>>) /\ dslCalls = 1
  /\ dslOut.ok

====
